---- MODULE Spec2Model ----
(***************************************************************************)
(* The analysis job pipeline of the ARC backend: the entitlement gate and  *)
(* the create handler (routes/analysis.ts), the start handler, the Cloud   *)
(* Tasks queue and the processing worker (services/queue.ts), over the     *)
(* Firestore collections users, analyses and sessions.  Every await of a   *)
(* handler that touches a shared store is one step, so that requests and   *)
(* worker runs interleave exactly where the Node processes can.            *)
(***************************************************************************)
EXTENDS Integers, Sequences, FiniteSets, TLC

\* ------------------------------------------------------------------ bounds
\* Create requests issued in a behaviour; request r gets analysis id r.
MaxCreates == 2
\* Entitlement queries that may be in flight at the same time.
MaxQueries == 1
\* Worker runs (queue deliveries, duplicates included) in a behaviour.
MaxRuns == 2
\* maxAttempts of the client's pollAnalysisCompletion.
MaxAttempts == 2

\* ------------------------------------------------------- program constants
\* freeAnalysesLimit of a lazily created user record.
FreeLimit == 1

Owners == {"devA"}
CreateIds == 1..MaxCreates
QueryIds == 1..MaxQueries
RunIds == 1..MaxRuns
\* Worker runs of different jobs share nothing: each touches its own
\* analyses document, its own session document and its own temp directories.
\* The pipeline is therefore specified for one job, the first one created.
PipelineIds == {1}
\* The x-device-id a start request may carry: the owner's or another's.
Callers == Owners \cup {"devB"}

VARIABLES
    users,      \* users collection: doc id -> UserData
    jobs,       \* analyses collection: analysis id -> AnalysisJob
    creq,       \* POST /v1/analysis requests, each at its await point
    qreq,       \* GET /v1/entitlements requests, each at its await point
    queue,      \* Cloud Tasks queue: analysis id -> tasks enqueued so far
    runs,       \* processAnalysisTask invocations, each at its await point
    tmp,        \* /tmp/<analysisId>-frames and -skeletons, per analysis id
    sessions,   \* sessions collection: session id (= analysis id) -> summary
    termWrites, \* history: writes of status complete or failed, per job
    client,     \* the app's runAnalysis call for the first job, at its await
    cv          \* a call of the angle calculator: its arguments and its result

entVars == <<users, creq, qreq>>
jobVars == <<queue, runs, tmp, sessions, termWrites>>
vars == <<users, jobs, creq, qreq, queue, runs, tmp, sessions, termWrites, client, cv>>

\* ------------------------------------------------------------- documents
NoUser == [exists |-> FALSE, isPro |-> FALSE, used |-> 0, limit |-> 0]

\* The record getOrCreateUserData writes on first access.
NewUserData == [exists |-> TRUE, isPro |-> FALSE, used |-> 0, limit |-> FreeLimit]

NoJob == [exists |-> FALSE, owner |-> "", videoPath |-> "", status |-> "",
          stage |-> "none", error |-> "", result |-> "none", angles |-> "none",
          urls |-> "none"]

\* The path generateSignedUploadUrl reserves: videos/<analysisId>/<uuid>.mp4.
ReservedPath == "videos/id/uuid.mp4"

\* The record createAnalysisJob writes.
NewJob(o) == [exists |-> TRUE, owner |-> o, videoPath |-> ReservedPath,
              status |-> "queued", stage |-> "none", error |-> "",
              result |-> "none", angles |-> "none", urls |-> "none"]

IdleCreate == [pc |-> "idle", owner |-> "", isPro |-> FALSE, used |-> 0,
               limit |-> 0, incs |-> 0, afterFree |-> FALSE]

\* ------------------------------------------------------ entitlement gate
\* A paywall test that is off by one: it denies the last free analysis.
PaywallOffByOne(u) == ~u.isPro /\ u.used + 1 >= u.limit

\* The paywall test of POST /v1/analysis on the UserData it read.
PaywallRequired(u) == ~u.isPro /\ u.used >= u.limit

\* A handler that counts the create of a pro user as well.
CountsUsageAlways(isPro) == TRUE

\* Whether the handler increments the usage counter after the job write.
CountsUsage(isPro) == ~isPro

\* A remainder computed without the clamp at zero.
RemainingFreeUnclamped(u) == IF u.isPro THEN 0 ELSE u.limit - u.used

\* remainingFreeAnalyses of GET /v1/entitlements.
RemainingFree(u) == IF u.isPro THEN 0
                    ELSE IF u.limit - u.used > 0 THEN u.limit - u.used ELSE 0

\* Some earlier create by a non-pro snapshot has already answered 201.
FreeCreateReturned(o) ==
    \E r \in CreateIds : creq[r].pc = "done201" /\ creq[r].owner = o /\ ~creq[r].isPro

\* The handler's state once it holds the UserData u: denied, or on to the
\* upload url and the job write.
Gated(r, o, u) ==
    [creq EXCEPT ![r] = [pc |-> IF PaywallRequired(u) THEN "denied402" ELSE "allowed",
                         owner |-> o, isPro |-> u.isPro, used |-> u.used,
                         limit |-> u.limit, incs |-> 0,
                         afterFree |-> FreeCreateReturned(o)]]

\* ------------------------------------------------------- authMiddleware
\* The Firebase UID a bearer token of a request decodes to.
FirebaseUids == {"uidA"}

\* The identity authMiddleware attaches to a request that carries the device
\* id and a bearer token of the UID: the device id, and no user id, the
\* validation of the token being a comment.
AuthMiddleware(deviceId, tokenUid) == [deviceId |-> deviceId, userId |-> ""]

\* docId of the entitlement functions: userId || deviceId.
UserDocId(deviceId, userId) == IF userId # "" THEN userId ELSE deviceId

\* ---------------------------------------------------- POST /v1/analysis
\* A request without the x-device-id header.
NoDevice == ""

\* angleHint of a request body: not given, one of the two enumerated values,
\* or a value outside the enumeration.
ValidHints == {"side", "front"}
AngleHints == {"absent", "top"} \cup ValidHints

\* A handler that validates nothing.
AdmitAnything(deviceId, angleHint) == "pass"

\* authMiddleware, then createAnalysisSchema.safeParse: a request without a
\* device id is answered 401 by the middleware; a body the schema rejects is
\* answered 400 by the handler; any other request goes on to the gate.
Admit(deviceId, angleHint) ==
    IF deviceId = NoDevice THEN "rej401"
    ELSE IF angleHint \notin ValidHints \cup {"absent"} THEN "rej400"
    ELSE "pass"

\* A handler that takes a failed read for a missing record and goes on.
GetOutcomeFailOpen(u, ok) == IF ok /\ u.exists THEN "gated" ELSE "missing"

\* Where userRef.get() leaves the handler on the stored record u: a read
\* that throws is caught and answered 500; an existing record is gated; a
\* missing one is to be created.
GetOutcome(u, ok) ==
    IF ~ok THEN "err500" ELSE IF u.exists THEN "gated" ELSE "missing"

\* getOrCreateUserData, the read: an existing record is returned and gated;
\* a missing one leaves the handler about to write the new record; a failed
\* read answers 500.
CreateGet(r, o, ok) ==
    /\ creq[r].pc = "idle"
    /\ \A q \in CreateIds : q < r => creq[q].pc # "idle"
    /\ \E h \in AngleHints : Admit(o, h) = "pass"
    /\ LET out == GetOutcome(users[o], ok) IN
       IF out = "err500"
          THEN creq' = [creq EXCEPT ![r].pc = "err500", ![r].owner = o]
          ELSE IF out = "gated"
                  THEN creq' = Gated(r, o, users[o])
                  ELSE creq' = [creq EXCEPT ![r].pc = "missing", ![r].owner = o,
                                            ![r].afterFree = FreeCreateReturned(o)]
    /\ UNCHANGED <<cv, client, users, jobs, qreq, jobVars>>

\* A request the middleware or the schema turns away: the response is all
\* there is.
CreateReject(r, d, h) ==
    /\ creq[r].pc = "idle"
    /\ \A q \in CreateIds : q < r => creq[q].pc # "idle"
    /\ Admit(d, h) # "pass"
    /\ creq' = [creq EXCEPT ![r].pc = Admit(d, h), ![r].owner = d]
    /\ UNCHANGED <<cv, client, users, jobs, qreq, jobVars>>

\* getOrCreateUserData, the write of the new record (a blind set).
CreateSet(r) ==
    /\ creq[r].pc = "missing"
    /\ users' = [users EXCEPT ![creq[r].owner] = NewUserData]
    /\ creq' = [Gated(r, creq[r].owner, NewUserData)
                   EXCEPT ![r].afterFree = creq[r].afterFree]
    /\ UNCHANGED <<cv, client, jobs, qreq, jobVars>>

\* The job record as the handler writes it.
JobWrite(r) == [jobs EXCEPT ![r] = NewJob(creq[r].owner)]

\* generateSignedUploadUrl, then createAnalysisJob; either may throw (500).
\* A pro snapshot skips the increment and answers 201 at once.
CreateWriteJob(r, ok) ==
    /\ creq[r].pc = "allowed"
    /\ IF ok
          THEN /\ jobs' = JobWrite(r)
               /\ creq' = [creq EXCEPT ![r].pc =
                              IF CountsUsage(creq[r].isPro) THEN "written" ELSE "done201"]
          ELSE /\ jobs' = jobs
               /\ creq' = [creq EXCEPT ![r].pc = "err500"]
    /\ UNCHANGED <<cv, client, users, qreq, jobVars>>

\* The user record after incrementFreeAnalysesUsed (FieldValue.increment(1)).
Incremented(u) == [u EXCEPT !.used = u.used + 1]

\* incrementFreeAnalysesUsed, then the 201 response.
CreateIncrement(r, ok) ==
    /\ creq[r].pc = "written"
    /\ IF ok /\ users[creq[r].owner].exists
          THEN /\ users' = [users EXCEPT ![creq[r].owner] = Incremented(@)]
               /\ creq' = [creq EXCEPT ![r].pc = "done201", ![r].incs = @ + 1]
          ELSE /\ users' = users
               /\ creq' = [creq EXCEPT ![r].pc = "err500"]
    /\ UNCHANGED <<cv, client, jobs, qreq, jobVars>>

\* -------------------------------------------------- GET /v1/entitlements
\* The response body on the UserData the handler holds.
EntitlementResponse(u) == [isPro |-> u.isPro, remainingFreeAnalyses |-> RemainingFree(u)]

\* getOrCreateUserData, the read.  On an existing record the handler
\* answers EntitlementResponse of it and changes nothing; on a missing one
\* it is left about to write the new record.
QueryGet(q, o) ==
    /\ qreq[q].pc = "idle"
    /\ ~users[o].exists
    /\ qreq' = [qreq EXCEPT ![q] = [pc |-> "missing", owner |-> o]]
    /\ UNCHANGED <<cv, client, users, jobs, creq, jobVars>>

\* getOrCreateUserData, the write of the new record (a blind set), and the
\* response on it.
QuerySet(q) ==
    /\ qreq[q].pc = "missing"
    /\ users' = [users EXCEPT ![qreq[q].owner] = NewUserData]
    /\ qreq' = [qreq EXCEPT ![q] = [pc |-> "idle", owner |-> ""]]
    /\ UNCHANGED <<cv, client, jobs, creq, jobVars>>

\* ------------------------------------------------------------ billing
\* updateProStatus: a Firestore update, which fails on a missing document.
ProStatusSet(o, isPro) ==
    IF users[o].exists THEN [users EXCEPT ![o].isPro = isPro] ELSE users

\* POST /v1/purchases/sync.
PurchaseSync(o) ==
    /\ users' = ProStatusSet(o, TRUE)
    /\ UNCHANGED <<cv, client, jobs, creq, qreq, jobVars>>

\* hasPro of the webhook: entitlements.some(e => e.toLowerCase() === "pro"
\* && e.expires_date === null) over a list of strings is false for every
\* list, since a string has no expires_date.
HasPro(entitlements) ==
    \E e \in entitlements : e = "pro" /\ FALSE

\* The event types of the handler's two branches.
PurchaseTypes == {"INITIAL_PURCHASE", "RENEWAL", "NON_RENEWING_PURCHASE"}
LapseTypes == {"CANCELLATION", "EXPIRATION", "BILLING_ISSUE"}
WebhookTypes == PurchaseTypes \cup LapseTypes

\* The users collection after the handler has run on an event for app user
\* id o.
AfterWebhook(type, entitlements, o) ==
    CASE type \in PurchaseTypes /\ HasPro(entitlements) -> ProStatusSet(o, TRUE)
      [] type \in LapseTypes /\ ~HasPro(entitlements) -> ProStatusSet(o, FALSE)
      [] OTHER -> users

\* POST /webhooks/revenuecat.
Webhook(type, entitlements, o) ==
    /\ users' = AfterWebhook(type, entitlements, o)
    /\ users' # users
    /\ UNCHANGED <<cv, client, jobs, creq, qreq, jobVars>>

\* ------------------------------------------- POST /v1/analysis/:id/start
\* The statuses on which the handler answers "Analysis already started".
AlreadyStarted(status) == status \in {"processing", "complete"}

\* A start handler that swallows the error of enqueueAnalysisTask.
StartOutcomeSwallowed(job, caller, enqOk) ==
    IF ~job.exists
       THEN [code |-> 404, status |-> "", enqueued |-> FALSE]
    ELSE IF job.owner # caller
       THEN [code |-> 403, status |-> "", enqueued |-> FALSE]
    ELSE IF AlreadyStarted(job.status)
       THEN [code |-> 200, status |-> job.status, enqueued |-> FALSE]
    ELSE [code |-> 200, status |-> "queued", enqueued |-> enqOk]

\* A start handler that tests the status before the ownership.
StartOutcomeStatusFirst(job, caller, enqOk) ==
    IF ~job.exists
       THEN [code |-> 404, status |-> "", enqueued |-> FALSE]
    ELSE IF AlreadyStarted(job.status)
       THEN [code |-> 200, status |-> job.status, enqueued |-> FALSE]
    ELSE IF job.owner # caller
       THEN [code |-> 403, status |-> "", enqueued |-> FALSE]
    ELSE IF enqOk
       THEN [code |-> 200, status |-> "queued", enqueued |-> TRUE]
    ELSE [code |-> 500, status |-> "", enqueued |-> FALSE]

\* What the handler does on the job record it read, for a caller and an
\* enqueue that succeeds or throws: the response code, the status the body
\* reports, and whether a task reaches the queue.
StartOutcome(job, caller, enqOk) ==
    IF ~job.exists
       THEN [code |-> 404, status |-> "", enqueued |-> FALSE]
    ELSE IF job.owner # caller
       THEN [code |-> 403, status |-> "", enqueued |-> FALSE]
    ELSE IF AlreadyStarted(job.status)
       THEN [code |-> 200, status |-> job.status, enqueued |-> FALSE]
    ELSE IF enqOk
       THEN [code |-> 200, status |-> "queued", enqueued |-> TRUE]
    ELSE [code |-> 500, status |-> "", enqueued |-> FALSE]

\* ------------------------------------ GET /v1/analysis/:id and /:id/result
\* A response that carries no field of the job.
NoStatusBody == [status |-> "absent", progressStage |-> "absent", error |-> "absent"]

NoPayload == [correctionCategory |-> "absent", shootingAngles |-> "absent",
              skeletonFrameUrls |-> "absent"]

\* A status query that skips the ownership test.
StatusOutcomeAnyCaller(job, caller) ==
    IF ~job.exists
       THEN [code |-> 404, body |-> NoStatusBody]
    ELSE [code |-> 200,
          body |-> [status |-> job.status, progressStage |-> job.stage,
                    error |-> job.error]]

\* The status query on the job record the handler read.
StatusOutcome(job, caller) ==
    IF ~job.exists
       THEN [code |-> 404, body |-> NoStatusBody]
    ELSE IF job.owner # caller
       THEN [code |-> 403, body |-> NoStatusBody]
    ELSE [code |-> 200,
          body |-> [status |-> job.status, progressStage |-> job.stage,
                    error |-> job.error]]

\* A result query that skips the status test.
ResultOutcomeAnyStatus(job, caller) ==
    IF ~job.exists
       THEN [code |-> 404, payload |-> NoPayload]
    ELSE IF job.owner # caller
       THEN [code |-> 403, payload |-> NoPayload]
    ELSE [code |-> 200,
          payload |-> [correctionCategory |-> job.result,
                       shootingAngles |-> IF job.angles = "none" THEN "null"
                                          ELSE job.angles,
                       skeletonFrameUrls |-> IF job.urls = "present" THEN "present"
                                             ELSE "empty"]]

\* The result query on the job record the handler read: 425 unless the
\* status is complete; skeletonFrameUrls || [] and shootingAngles || null.
ResultOutcome(job, caller) ==
    IF ~job.exists
       THEN [code |-> 404, payload |-> NoPayload]
    ELSE IF job.owner # caller
       THEN [code |-> 403, payload |-> NoPayload]
    ELSE IF job.status # "complete"
       THEN [code |-> 425, payload |-> NoPayload]
    ELSE [code |-> 200,
          payload |-> [correctionCategory |-> job.result,
                       shootingAngles |-> IF job.angles = "none" THEN "null"
                                          ELSE job.angles,
                       skeletonFrameUrls |-> IF job.urls = "present" THEN "present"
                                             ELSE "empty"]]

\* History of the tasks of a job, and of its terminal writes: none, one,
\* or more than one.
Counted(n) == IF n = "none" THEN "one" ELSE "many"

\* The whole handler: getAnalysisJob, the ownership test, the status test,
\* enqueueAnalysisTask and the response.  The id is a fresh uuid the client
\* learns from the 201 response of create.  The handler writes nothing to
\* the ledger, so taking the enqueue with the read in one step loses no
\* ledger behaviour: the queue delivers whenever it likes.
Start(j, caller, enqOk) ==
    /\ creq[j].pc = "done201"
    /\ StartOutcome(jobs[j], caller, enqOk).enqueued
    /\ queue' = [queue EXCEPT ![j] = Counted(@)]
    /\ queue' # queue
    /\ UNCHANGED <<cv, client, users, jobs, creq, qreq, runs, tmp, sessions, termWrites>>

\* ------------------------------------------------- processAnalysisTask
\* A run's steps are its writes to the ledger and to the sessions
\* collection; the collaborator calls between two writes (download, frame
\* extraction, pose, session read, coaching) touch only the run's own
\* temp files and are taken together with the write they follow.
IdleRun == [pc |-> "idle", job |-> 0, video |-> FALSE, angles |-> FALSE,
            urls |-> FALSE, category |-> "", err |-> "", resp |-> 0]

ValidCategories == {"balance_verticality", "shot_line_integrity",
                    "set_point_consistency", "release_follow_through"}

\* The last category of the prompt's correction priority order.
LowestPriorityCategory == "release_follow_through"

\* A validation that trusts the answer verbatim.
ValidatedCategoryTrusted(c) == c

\* The validation at the end of analyzeShootingForm.
ValidatedCategory(c) == IF c \in ValidCategories THEN c ELSE "release_follow_through"

\* What the coaching model may answer as correctionCategory; the other
\* fields of its answer are as the prompt's schema fixes them.
RawCategories == {"release_follow_through", "Balance"}

\* What analyzeShootingForm throws: both models failing, or no JSON object
\* in the answer (JSON.parse rejecting the matched text throws likewise).
CoachingErrors == {"Failed to analyze shooting form with Gemini",
                   "Failed to parse Gemini response as JSON"}

\* A status write made with set instead of update: the document is replaced
\* and the fields the write does not name are lost.
StatusUpdateReplaces(job, status, stage, error) ==
    [NoJob EXCEPT !.exists = TRUE, !.status = status, !.stage = stage,
                  !.error = error]

\* updateAnalysisStatus: a blind Firestore update of status and, when given,
\* progressStage and error (undefined properties are ignored).
StatusUpdate(job, status, stage, error) ==
    [job EXCEPT !.status = status,
                !.stage = IF stage = "none" THEN @ ELSE stage,
                !.error = IF error = "" THEN @ ELSE error]

\* saveAnalysisResults: a blind Firestore update of status and the results;
\* shootingAngles is undefined, and so left as stored, when the run has none;
\* skeletonFrameUrls is always written, as the empty list when the run has
\* uploaded no frame.
ResultsUpdate(job, category, angles, urls) ==
    [job EXCEPT !.status = "complete", !.result = category,
                !.angles = IF angles THEN "present" ELSE @,
                !.urls = IF urls THEN "present" ELSE "empty"]

IsTerminal(status) == status \in {"complete", "failed"}

\* A throw inside the try block: control moves to the catch block.
Thrown(k, msg) ==
    [runs EXCEPT ![k].pc = "catch", ![k].err = msg, ![k].angles = FALSE,
                 ![k].urls = FALSE, ![k].category = ""]

\* The bodies POST /internal/process-analysis may receive, by which of the
\* required fields they carry, and the payload enqueueAnalysisTask builds.
Bodies == [analysisId : BOOLEAN, videoPath : BOOLEAN, deviceId : BOOLEAN]
TaskBody == [analysisId |-> TRUE, videoPath |-> TRUE, deviceId |-> TRUE]

\* An entrypoint that does not look at the body.
EntryOutcomeUnchecked(body) == [code |-> 200, starts |-> TRUE]

\* The entrypoint on a body: 400 and nothing else when a required field is
\* missing; otherwise processAnalysisTask is called without await and 200
\* is answered.
EntryOutcome(body) ==
    IF ~body.analysisId \/ ~body.videoPath \/ ~body.deviceId
       THEN [code |-> 400, starts |-> FALSE]
       ELSE [code |-> 200, starts |-> TRUE]

\* A request to the entrypoint that lacks a required field.
EntryReject(k, body) ==
    /\ runs[k].pc = "idle"
    /\ \A m \in RunIds : m < k => runs[m].pc # "idle"
    /\ ~EntryOutcome(body).starts
    /\ runs' = [runs EXCEPT ![k].pc = "rej400", ![k].resp = EntryOutcome(body).code]
    /\ UNCHANGED <<cv, client, users, jobs, creq, qreq, queue, tmp, sessions, termWrites>>

\* The queue delivers a task of job j to POST /internal/process-analysis,
\* which starts a run and answers at once.  Delivery is at least once: the
\* task stays deliverable.
Deliver(k, j) ==
    /\ runs[k].pc = "idle"
    /\ \A m \in RunIds : m < k => runs[m].pc # "idle"
    /\ queue[j] # "none"
    /\ EntryOutcome(TaskBody).starts
    /\ runs' = [runs EXCEPT ![k] = [IdleRun EXCEPT !.pc = "extract", !.job = j,
                                                   !.resp = EntryOutcome(TaskBody).code]]
    /\ UNCHANGED <<cv, client, users, jobs, creq, qreq, queue, tmp, sessions, termWrites>>

\* A stage write that names the last stage whatever stage is opened.
MarkedAsSaving(j, stage, ok) ==
    IF ok THEN [jobs EXCEPT ![j] = StatusUpdate(@, "processing", "saving", "")] ELSE jobs

\* The job record after updateAnalysisStatus(id, "processing", stage), the
\* write that opens a stage; a failed write leaves it as it was.
Marked(j, stage, ok) ==
    IF ok THEN [jobs EXCEPT ![j] = StatusUpdate(@, "processing", stage, "")] ELSE jobs

ExtractOutcomes == {"ok", "noObject", "ffprobe", "ffmpeg"}

\* Lines 94-104: the stage write, downloadVideo to /tmp/<uuid>.mp4 (a
\* missing object throws) and extractShootingFrames into
\* /tmp/<analysisId>-frames (ffprobe may fail before the directory is made,
\* ffmpeg after).
WorkerExtract(k, markOk, outcome) ==
    /\ runs[k].pc = "extract"
    /\ LET j == runs[k].job IN
       /\ jobs' = Marked(j, "extracting_frames", markOk)
       /\ IF ~markOk
             THEN /\ runs' = Thrown(k, "ledger unavailable")
                  /\ tmp' = tmp
          ELSE IF outcome = "noObject"
             THEN /\ runs' = Thrown(k, "No such object")
                  /\ tmp' = tmp
          ELSE IF outcome = "ffprobe"
             THEN /\ runs' = [Thrown(k, "Frame extraction failed") EXCEPT ![k].video = TRUE]
                  /\ tmp' = tmp
          ELSE IF outcome = "ffmpeg"
             THEN /\ runs' = [Thrown(k, "Frame extraction failed") EXCEPT ![k].video = TRUE]
                  /\ tmp' = [tmp EXCEPT ![j].frames = TRUE]
          ELSE /\ runs' = [runs EXCEPT ![k].pc = "pose", ![k].video = TRUE]
               /\ tmp' = [tmp EXCEPT ![j].frames = TRUE]
    /\ UNCHANGED <<cv, client, users, creq, qreq, queue, sessions, termWrites>>

\* What the pose block may do: runMediaPipePose answers and key frames are
\* uploaded; it answers and no frame is uploaded (uploadSkeletonFrames skips
\* a frame it cannot upload); or it throws.
PoseOutcomes == {"ok", "noUrls", "throws"}

\* Lines 107-137: the stage write and runMediaPipePose into
\* /tmp/<analysisId>-skeletons, inside its own try: a pose failure is logged
\* and the run goes on without angles and with no skeleton urls.
WorkerPose(k, markOk, outcome) ==
    /\ runs[k].pc = "pose"
    /\ LET j == runs[k].job IN
       /\ jobs' = Marked(j, "pose", markOk)
       /\ IF ~markOk
             THEN /\ runs' = Thrown(k, "ledger unavailable")
                  /\ tmp' = tmp
          ELSE IF outcome # "throws"
             THEN /\ runs' = [runs EXCEPT ![k].pc = "llm", ![k].angles = TRUE,
                                          ![k].urls = (outcome = "ok")]
                  /\ tmp' = [tmp EXCEPT ![j].skel = TRUE]
          ELSE /\ runs' = [runs EXCEPT ![k].pc = "llm"]
               /\ tmp' = tmp
    /\ UNCHANGED <<cv, client, users, creq, qreq, queue, sessions, termWrites>>

\* Lines 107-113 when the python process of runMediaPipePose never closes:
\* the promise it returns has no timer and never settles, so the run stays
\* at its await.
WorkerPoseHang(k) ==
    /\ runs[k].pc = "pose"
    /\ jobs' = Marked(runs[k].job, "pose", TRUE)
    /\ runs' = [runs EXCEPT ![k].pc = "poseWait"]
    /\ UNCHANGED <<cv, client, users, creq, qreq, queue, tmp, sessions, termWrites>>

\* Lines 140-156: the stage write, getUserSessions and analyzeShootingForm,
\* which answers a validated category or throws.
WorkerCoach(k, markOk, sessionsOk, outcome) ==
    /\ runs[k].pc = "llm"
    /\ jobs' = Marked(runs[k].job, "llm", markOk)
    /\ runs' = IF ~markOk \/ ~sessionsOk
                  THEN Thrown(k, "ledger unavailable")
               ELSE IF outcome \in CoachingErrors
                  THEN Thrown(k, outcome)
               ELSE [runs EXCEPT ![k].pc = "saving",
                                 ![k].category = ValidatedCategory(outcome)]
    /\ UNCHANGED <<cv, client, users, creq, qreq, queue, tmp, sessions, termWrites>>

\* Line 159: the stage write before the results.
WorkerMarkSaving(k, ok) ==
    /\ runs[k].pc = "saving"
    /\ jobs' = Marked(runs[k].job, "saving", ok)
    /\ runs' = IF ok THEN [runs EXCEPT ![k].pc = "saveResults"]
               ELSE Thrown(k, "ledger unavailable")
    /\ UNCHANGED <<cv, client, users, creq, qreq, queue, tmp, sessions, termWrites>>

\* Lines 162-176: saveAnalysisResults.
WorkerSaveResults(k, ok) ==
    /\ runs[k].pc = "saveResults"
    /\ LET j == runs[k].job IN
       IF ok
          THEN /\ jobs' = [jobs EXCEPT ![j] =
                              ResultsUpdate(@, runs[k].category, runs[k].angles,
                                            runs[k].urls)]
               /\ termWrites' = [termWrites EXCEPT ![j] = Counted(@)]
               /\ runs' = [runs EXCEPT ![k].pc = "saveSession", ![k].angles = FALSE,
                                       ![k].urls = FALSE]
          ELSE /\ jobs' = jobs
               /\ termWrites' = termWrites
               /\ runs' = Thrown(k, "ledger unavailable")
    /\ UNCHANGED <<cv, client, users, creq, qreq, queue, tmp, sessions>>

\* No document under a session id.
NoSession == [exists |-> FALSE, category |-> "", date |-> 0]

\* The SessionSummary saveSession builds: the run's category and, as date,
\* Timestamp.now() of the call, which no two runs share; dates are told
\* apart by the run that took them.
SessionOf(k) == [exists |-> TRUE, category |-> runs[k].category, date |-> k]

\* Lines 179-185: saveSession, a blind set of the document whose id is the
\* analysis id.
WorkerSaveSession(k, ok) ==
    /\ runs[k].pc = "saveSession"
    /\ IF ok
          THEN /\ sessions' = [sessions EXCEPT ![runs[k].job] = SessionOf(k)]
               /\ runs' = [runs EXCEPT ![k].pc = "markComplete", ![k].category = ""]
          ELSE /\ sessions' = sessions
               /\ runs' = Thrown(k, "ledger unavailable")
    /\ UNCHANGED <<cv, client, users, jobs, creq, qreq, queue, tmp, termWrites>>

\* Line 188: updateAnalysisStatus(analysisId, "complete").
WorkerMarkComplete(k, ok) ==
    /\ runs[k].pc = "markComplete"
    /\ LET j == runs[k].job IN
       IF ok
          THEN /\ jobs' = [jobs EXCEPT ![j] = StatusUpdate(@, "complete", "none", "")]
               /\ termWrites' = [termWrites EXCEPT ![j] = Counted(@)]
               /\ runs' = [runs EXCEPT ![k].pc = "cleanup"]
          ELSE /\ jobs' = jobs
               /\ termWrites' = termWrites
               /\ runs' = Thrown(k, "ledger unavailable")
    /\ UNCHANGED <<cv, client, users, creq, qreq, queue, tmp, sessions>>

\* The temp files the success path removes: the video, the frames
\* directory and the skeleton directory.
SuccessCleanup(k) ==
    /\ runs' = [runs EXCEPT ![k].pc = "done", ![k].video = FALSE]
    /\ tmp' = [tmp EXCEPT ![runs[k].job] = [frames |-> FALSE, skel |-> FALSE]]

\* Lines 192-202, the end of the try block; the run returns.
WorkerCleanup(k) ==
    /\ runs[k].pc = "cleanup"
    /\ SuccessCleanup(k)
    /\ UNCHANGED <<cv, client, users, jobs, creq, qreq, queue, sessions, termWrites>>

\* The temp files the catch block removes: the skeleton directory only.
FailureCleanup(k) ==
    tmp' = [tmp EXCEPT ![runs[k].job].skel = FALSE]

\* Lines 203-220, the catch block: cleanupSkeletonFrames, then
\* updateAnalysisStatus(analysisId, "failed", undefined, message), then the
\* rethrow.  If the status write throws, that error leaves the function.
WorkerCatch(k, ok) ==
    /\ runs[k].pc = "catch"
    /\ FailureCleanup(k)
    /\ LET j == runs[k].job IN
       IF ok
          THEN /\ jobs' = [jobs EXCEPT ![j] = StatusUpdate(@, "failed", "none", runs[k].err)]
               /\ termWrites' = [termWrites EXCEPT ![j] = Counted(@)]
          ELSE /\ jobs' = jobs
               /\ termWrites' = termWrites
    /\ runs' = [runs EXCEPT ![k].pc = "threw", ![k].err = ""]
    /\ UNCHANGED <<cv, client, users, creq, qreq, queue, sessions>>

\* ------------------------------------------------- the app: runAnalysis
\* runAnalysis awaiting the response of its create request, the first one.
NewClient == [pc |-> "create", uploaded |-> FALSE, attempts |-> 0, reads |-> 0,
              err |-> ""]

\* The job runAnalysis works on, and the device id it sends.
ClientJob == 1
ClientDevice == creq[ClientJob].owner

\* runAnalysis leaves by a throw.
ClientThrows(msg) == [client EXCEPT !.pc = "threw", !.err = msg]

\* createAnalysisJob returns the 201 body, or apiRequest throws the message
\* of the error response.
ClientCreated ==
    /\ client.pc = "create"
    /\ creq[ClientJob].pc \in {"done201", "denied402", "err500", "rej400", "rej401"}
    /\ client' = CASE creq[ClientJob].pc = "done201" -> [client EXCEPT !.pc = "upload"]
                   [] creq[ClientJob].pc = "denied402" ->
                         ClientThrows("Free analyses limit reached")
                   [] creq[ClientJob].pc = "rej400" -> ClientThrows("Invalid request body")
                   [] creq[ClientJob].pc = "rej401" -> ClientThrows("Device ID required")
                   [] OTHER -> ClientThrows("Failed to create analysis job")
    /\ UNCHANGED <<cv, users, jobs, creq, qreq, queue, runs, tmp, sessions, termWrites>>

\* An upload whose failure is not noticed.
AfterUploadUnchecked(ok) == [client EXCEPT !.pc = "start", !.uploaded = ok]

\* uploadVideoToSignedUrl: the PUT to the signed url; a response that is not
\* ok throws.
AfterUpload(ok) ==
    IF ok THEN [client EXCEPT !.pc = "start", !.uploaded = TRUE]
    ELSE ClientThrows("Failed to upload video")

ClientUpload(ok) ==
    /\ client.pc = "upload"
    /\ client' = AfterUpload(ok)
    /\ UNCHANGED <<cv, users, jobs, creq, qreq, queue, runs, tmp, sessions, termWrites>>

\* startAnalysis: the start handler on the job as stored, for the owner.
ClientStart(enqOk) ==
    /\ client.pc = "start"
    /\ LET out == StartOutcome(jobs[ClientJob], ClientDevice, enqOk) IN
       /\ queue' = IF out.enqueued THEN [queue EXCEPT ![ClientJob] = Counted(@)]
                   ELSE queue
       /\ client' = IF out.code = 200 THEN [client EXCEPT !.pc = "poll"]
                    ELSE ClientThrows("Failed to start analysis")
    /\ UNCHANGED <<cv, users, jobs, creq, qreq, runs, tmp, sessions, termWrites>>

\* One turn of the loop of pollAnalysisCompletion: getAnalysisStatus, then
\* on complete the way to the result, on failed the throw of the job's
\* error, and otherwise the sleep, attempts++ and, once attempts has reached
\* maxAttempts, the throw after the loop.
ClientPoll ==
    /\ client.pc = "poll"
    /\ LET st == StatusOutcome(jobs[ClientJob], ClientDevice).body
           read == [client EXCEPT !.reads = @ + 1]
       IN client' =
             IF st.status = "complete" THEN [read EXCEPT !.pc = "result"]
             ELSE IF st.status = "failed"
                THEN [read EXCEPT !.pc = "threw",
                                  !.err = IF st.error # "" THEN st.error
                                          ELSE "Analysis failed"]
             ELSE IF client.attempts + 1 < MaxAttempts
                THEN [read EXCEPT !.attempts = @ + 1]
             ELSE [read EXCEPT !.attempts = @ + 1, !.pc = "threw",
                               !.err = "Analysis timed out"]
    /\ UNCHANGED <<cv, users, jobs, creq, qreq, queue, runs, tmp, sessions, termWrites>>

\* getAnalysisResult after a read that showed complete: apiRequest returns
\* the payload or throws the message of the error response.
ClientResult ==
    /\ client.pc = "result"
    /\ client' = IF ResultOutcome(jobs[ClientJob], ClientDevice).code = 200
                    THEN [client EXCEPT !.pc = "returned"]
                 ELSE ClientThrows("Analysis not complete yet")
    /\ UNCHANGED <<cv, users, jobs, creq, qreq, queue, runs, tmp, sessions, termWrites>>

ClientStep ==
    \/ ClientCreated
    \/ \E ok \in BOOLEAN : ClientUpload(ok)
    \/ \E ok \in BOOLEAN : ClientStart(ok)
    \/ ClientPoll
    \/ ClientResult

\* ---------------------------------------------- the app: checkCanAnalyze
\* A check that asks for the paywall only below zero remaining analyses.
checkCanAnalyzeBelowZero(ok, entitlements) ==
    IF ok
    THEN [canAnalyze |-> entitlements.isPro \/ entitlements.remainingFreeAnalyses > 0,
          isPro |-> entitlements.isPro,
          remainingFree |-> entitlements.remainingFreeAnalyses,
          requiresPaywall |-> ~entitlements.isPro /\ entitlements.remainingFreeAnalyses < 0]
    ELSE [canAnalyze |-> TRUE, isPro |-> FALSE, remainingFree |-> 1,
          requiresPaywall |-> FALSE]

\* checkCanAnalyze on the body getEntitlements returned (ok), or on its
\* throw (~ok), where the app fails open.
checkCanAnalyze(ok, entitlements) ==
    IF ok
    THEN [canAnalyze |-> entitlements.isPro \/ entitlements.remainingFreeAnalyses > 0,
          isPro |-> entitlements.isPro,
          remainingFree |-> entitlements.remainingFreeAnalyses,
          requiresPaywall |-> ~entitlements.isPro /\ entitlements.remainingFreeAnalyses <= 0]
    ELSE [canAnalyze |-> TRUE, isPro |-> FALSE, remainingFree |-> 1,
          requiresPaywall |-> FALSE]

\* ------------------------------------------------- cv/angle_calculator
\* IDEAL_RANGES.  Angles are in degrees; setPointHeight, a ratio with one
\* decimal, is in tenths (1.0 is 10 and 1.5 is 15).
IDEAL_RANGES ==
    [elbowAngle |-> [min |-> 85, max |-> 100],
     kneeFlexion |-> [min |-> 30, max |-> 45],
     bodyLean |-> [min |-> -5, max |-> 5],
     setPointHeight |-> [min |-> 10, max |-> 15]]

Metrics == {"elbowAngle", "kneeFlexion", "bodyLean", "setPointHeight"}

\* Math.abs.
Abs(x) == IF x < 0 THEN -x ELSE x

\* A status that takes the comment at its word: close within 10% of the
\* range.
RangeStatusTenPercent(value, range) ==
    IF value >= range.min /\ value <= range.max THEN "good"
    ELSE LET deviation == IF value < range.min THEN range.min - value
                          ELSE value - range.max
         IN IF 10 * deviation <= range.max - range.min THEN "close"
            ELSE "needs_work"

\* The body of isInIdealRange on the range it looked up.  closeThreshold is
\* rangeSize * 0.5, and deviation <= rangeSize * 0.5 is
\* 2 * deviation <= rangeSize (halving is exact).
RangeStatus(value, range) ==
    IF value >= range.min /\ value <= range.max THEN "good"
    ELSE LET deviation == IF value < range.min THEN range.min - value
                          ELSE value - range.max
         IN IF 2 * deviation <= range.max - range.min THEN "close"
            ELSE "needs_work"

\* isInIdealRange(value, metric).status.
isInIdealRange(value, metric) == RangeStatus(value, IDEAL_RANGES[metric])

\* The status of each entry of assessShootingAngles(angles), by metric.
assessShootingAngles(angles) ==
    [elbowAngle |-> isInIdealRange(angles.elbowAngleAtRelease, "elbowAngle"),
     kneeFlexion |-> isInIdealRange(angles.kneeFlexionAtSetPoint, "kneeFlexion"),
     bodyLean |-> isInIdealRange(Abs(angles.bodyLean), "bodyLean"),
     setPointHeight |-> isInIdealRange(angles.setPointHeight, "setPointHeight")]

NoAngles == [elbowAngleAtRelease |-> 0, kneeFlexionAtSetPoint |-> 0,
             bodyLean |-> 0, setPointHeight |-> 0]

NoStatuses == [m \in Metrics |-> ""]

\* No call of the calculator made.
NoCall == [fn |-> "", value |-> 0, metric |-> "", angles |-> NoAngles,
           status |-> "", statuses |-> NoStatuses, history |-> <<>>, count |-> 0,
           allPaths |-> <<>>, releaseFrame |-> 0, paths |-> <<>>,
           a |-> <<0, 0>>, b |-> <<0, 0>>, c |-> <<0, 0>>, angle |-> 0]

\* The values a measurement may take: each metric below its range by less
\* and by more than half the range, inside it, on its bounds, and above it
\* likewise; the lean on either side of vertical.
MeasuredValues == {-12, -8, -5, -3, 0, 3, 5, 8, 10, 12, 13, 15, 17, 18, 20, 23, 30, 40,
                   45, 52, 53, 60, 78, 80, 85, 92, 100, 107, 108, 120}

ShootingAngles ==
    [elbowAngleAtRelease : {60, 80, 92, 107, 108},
     kneeFlexionAtSetPoint : {20, 23, 40, 52, 53},
     bodyLean : {-12, -8, -5, 0, 3, 8},
     setPointHeight : {7, 8, 12, 17, 18}]

\* A call of isInIdealRange.
CallIsInIdealRange(value, metric) ==
    /\ cv = NoCall
    /\ cv' = [NoCall EXCEPT !.fn = "isInIdealRange", !.value = value,
                            !.metric = metric,
                            !.status = isInIdealRange(value, metric)]
    /\ UNCHANGED <<users, jobs, creq, qreq, queue, runs, tmp, sessions, termWrites, client>>

\* A call of assessShootingAngles.
CallAssessShootingAngles(angles) ==
    /\ cv = NoCall
    /\ cv' = [NoCall EXCEPT !.fn = "assessShootingAngles", !.angles = angles,
                            !.statuses = assessShootingAngles(angles)]
    /\ UNCHANGED <<users, jobs, creq, qreq, queue, runs, tmp, sessions, termWrites, client>>

\* ------------------------------------------ continuity context (queue.ts)
\* The limit processAnalysisTask passes to getUserSessions.
SessionWindow == 5

\* The longest session history of an owner considered.
MaxHistory == 6

\* primaryFocus values of stored sessions.
Focuses == {"elbow", "balance"}

\* The primaryFocus of an owner's sessions, most recent first.
Histories == UNION {[1..n -> Focuses] : n \in 0..MaxHistory}

\* getUserSessions(deviceId, userId, 5): the most recent sessions of the
\* owner, at most limit of them.
getUserSessions(history, limit) ==
    SubSeq(history, 1, IF Len(history) < limit THEN Len(history) ELSE limit)

\* sessionsOnFocus: sessions.filter(s => s.primaryFocus === previousFocus)
\* .length with previousFocus = sessions[0]?.primaryFocus.
SessionsOnFocus(window) ==
    IF window = <<>> THEN 0
    ELSE Cardinality({i \in 1..Len(window) : window[i] = window[1]})

\* Lines 142-147 of processAnalysisTask on the owner's history.
CallSessionsOnFocus(history) ==
    /\ cv = NoCall
    /\ cv' = [NoCall EXCEPT !.fn = "sessionsOnFocus", !.history = history,
                            !.count = SessionsOnFocus(
                                         getUserSessions(history, SessionWindow))]
    /\ UNCHANGED <<users, jobs, creq, qreq, queue, runs, tmp, sessions, termWrites, client>>

\* ------------------------------------------- cv/angle_calculator: angles
\* Landmarks lie on a grid of (MaxCoord + 1) by (MaxCoord + 1) points; a
\* point is the pair <<x, y>>.
MaxCoord == 2
Points == (0..MaxCoord) \X (0..MaxCoord)

\* Math.acos(cosAngle) * (180 / Math.PI) for cosAngle = dot / sqrt(magSq),
\* magSq = magBA^2 * magBC^2 > 0, rounded down to the nearest of 0, 30, 45,
\* 60, 90, 120, 135, 150 and 180 degrees (the angles whose squared cosine
\* is a fraction). dot^2 <= magSq always, which is what the clamp to
\* [-1, 1] restores after rounding.
AngleDegrees(dot, magSq) ==
    IF dot >= 0
    THEN IF dot = 0 THEN 90
         ELSE IF 4 * dot * dot <= magSq THEN 60
         ELSE IF 2 * dot * dot <= magSq THEN 45
         ELSE IF 4 * dot * dot <= 3 * magSq THEN 30
         ELSE 0
    ELSE IF dot * dot >= magSq THEN 180
         ELSE IF 4 * dot * dot >= 3 * magSq THEN 150
         ELSE IF 2 * dot * dot >= magSq THEN 135
         ELSE IF 4 * dot * dot >= magSq THEN 120
         ELSE 90

\* An angle function that guards the first ray only.
calculateAngleFirstRayOnly(a, b, c) ==
    LET ba == <<a[1] - b[1], a[2] - b[2]>>
        bc == <<c[1] - b[1], c[2] - b[2]>>
        dot == ba[1] * bc[1] + ba[2] * bc[2]
        magBASq == ba[1] * ba[1] + ba[2] * ba[2]
        magBCSq == bc[1] * bc[1] + bc[2] * bc[2]
    IN IF magBASq = 0 THEN 0 ELSE AngleDegrees(dot, magBASq * magBCSq)

\* calculateAngle(a, b, c): the angle at b, in degrees. A magnitude is 0
\* exactly when its square is.
calculateAngle(a, b, c) ==
    LET ba == <<a[1] - b[1], a[2] - b[2]>>
        bc == <<c[1] - b[1], c[2] - b[2]>>
        dot == ba[1] * bc[1] + ba[2] * bc[2]
        magBASq == ba[1] * ba[1] + ba[2] * ba[2]
        magBCSq == bc[1] * bc[1] + bc[2] * bc[2]
    IN IF magBASq = 0 \/ magBCSq = 0 THEN 0
       ELSE AngleDegrees(dot, magBASq * magBCSq)

\* A call of calculateAngle.
CallCalculateAngle(a, b, c) ==
    /\ cv = NoCall
    /\ cv' = [NoCall EXCEPT !.fn = "calculateAngle", !.a = a, !.b = b, !.c = c,
                            !.angle = calculateAngle(a, b, c)]
    /\ UNCHANGED <<users, jobs, creq, qreq, queue, runs, tmp, sessions, termWrites, client>>

\* ------------------------------------------------- cv/skeleton_generator
\* The longest list of annotated frames considered.
MaxFrames == 14

\* The annotated frames of a run in frame order, each path told by its
\* frame number.
AllPaths(n) == [i \in 1..n |-> i]

Min(a, b) == IF a < b THEN a ELSE b
Max(a, b) == IF a > b THEN a ELSE b

\* A selection that leaves the release frame out.
KeyIndicesWithoutRelease(totalFrames, releaseFrame) ==
    {0, totalFrames \div 4, Max(0, releaseFrame - 2),
     Min(totalFrames - 1, releaseFrame + 3)}

\* new Set(indices): setup, lift, set point, release and follow-through,
\* as zero-based indices, duplicates removed.
KeyIndices(totalFrames, releaseFrame) ==
    {0, totalFrames \div 4, Max(0, releaseFrame - 2), releaseFrame,
     Min(totalFrames - 1, releaseFrame + 3)}

\* sort((a, b) => a - b).
RECURSIVE SortedIndices(_)
SortedIndices(S) ==
    IF S = {} THEN <<>>
    ELSE LET m == CHOOSE x \in S : \A y \in S : x <= y
         IN <<m>> \o SortedIndices(S \ {m})

\* selectKeySkeletonFrames(allPaths, releaseFrame).paths.
selectKeySkeletonFrames(allPaths, releaseFrame) ==
    IF Len(allPaths) = 0 THEN <<>>
    ELSE IF Len(allPaths) <= 5 THEN allPaths
    ELSE LET uniqueIndices == SortedIndices(KeyIndices(Len(allPaths), releaseFrame))
         IN [i \in 1..Len(uniqueIndices) |->
                allPaths[Min(uniqueIndices[i], Len(allPaths) - 1) + 1]]

\* A call of selectKeySkeletonFrames.
CallSelectKeySkeletonFrames(allPaths, releaseFrame) ==
    /\ cv = NoCall
    /\ cv' = [NoCall EXCEPT !.fn = "selectKeySkeletonFrames", !.allPaths = allPaths,
                            !.releaseFrame = releaseFrame,
                            !.paths = selectKeySkeletonFrames(allPaths, releaseFrame)]
    /\ UNCHANGED <<users, jobs, creq, qreq, queue, runs, tmp, sessions, termWrites, client>>

\* --------------------------------------------------------- specification
\* Nothing created, requested, enqueued or staged yet.
InitStores ==
    /\ jobs = [j \in CreateIds |-> NoJob]
    /\ creq = [r \in CreateIds |-> IdleCreate]
    /\ qreq = [q \in QueryIds |-> [pc |-> "idle", owner |-> ""]]
    /\ queue = [j \in CreateIds |-> "none"]
    /\ runs = [k \in RunIds |-> IdleRun]
    /\ tmp = [j \in CreateIds |-> [frames |-> FALSE, skel |-> FALSE]]
    /\ sessions = [j \in CreateIds |-> NoSession]
    /\ termWrites = [j \in CreateIds |-> "none"]
    /\ client = NewClient
    /\ cv = NoCall

Init ==
    /\ users = [o \in Owners |-> NoUser]
    /\ InitStores

CreateStep(ids) ==
    \/ \E r \in ids, d \in Owners \cup {NoDevice}, h \in AngleHints : CreateReject(r, d, h)
    \/ \E r \in ids, o \in Owners, ok \in BOOLEAN : CreateGet(r, o, ok)
    \/ \E r \in ids : CreateSet(r)
    \/ \E r \in ids, ok \in BOOLEAN : CreateWriteJob(r, ok)
    \/ \E r \in ids, ok \in BOOLEAN : CreateIncrement(r, ok)

QueryStep ==
    \/ \E q \in QueryIds, o \in Owners : QueryGet(q, o)
    \/ \E q \in QueryIds : QuerySet(q)

BillingStep ==
    \/ \E o \in Owners : PurchaseSync(o)
    \/ \E t \in WebhookTypes, es \in SUBSET {"pro"}, o \in Owners : Webhook(t, es, o)

\* A step of run k after its delivery.
RunStep(k) ==
    \/ \E ok \in BOOLEAN, o \in ExtractOutcomes : WorkerExtract(k, ok, o)
    \/ \E ok \in BOOLEAN, p \in PoseOutcomes : WorkerPose(k, ok, p)
    \/ \E ok \in BOOLEAN, sok \in BOOLEAN,
          o \in RawCategories \cup CoachingErrors : WorkerCoach(k, ok, sok, o)
    \/ \E ok \in BOOLEAN : WorkerMarkSaving(k, ok)
    \/ \E ok \in BOOLEAN : WorkerSaveResults(k, ok)
    \/ \E ok \in BOOLEAN : WorkerSaveSession(k, ok)
    \/ \E ok \in BOOLEAN : WorkerMarkComplete(k, ok)
    \/ WorkerCleanup(k)
    \/ \E ok \in BOOLEAN : WorkerCatch(k, ok)

WorkerStep(ids) ==
    \/ \E k \in ids, j \in PipelineIds : Deliver(k, j)
    \/ \E k \in ids : RunStep(k)

StartStep == \E j \in PipelineIds, c \in Callers, ok \in BOOLEAN : Start(j, c, ok)

\* The entitlement gate under concurrent requests of one owner: creates,
\* entitlement queries and billing events, every await interleaved.
Next == CreateStep(CreateIds) \/ QueryStep \/ BillingStep

Spec == Init /\ [][Next]_vars

\* The job pipeline: one job is created, then started (any number of times)
\* and driven by worker runs, duplicates of a delivery included.
NextJob == CreateStep(PipelineIds) \/ StartStep \/ WorkerStep(RunIds)

SpecJob == Init /\ [][NextJob]_vars

\* The entitlement records the gate can leave behind: none yet, a new one,
\* one whose free analysis is used, and either of them after a purchase.
KnownUsers ==
    {NoUser} \cup {[NewUserData EXCEPT !.isPro = p, !.used = u] :
                      p \in BOOLEAN, u \in 0..FreeLimit}

InitJob ==
    /\ users \in [Owners -> KnownUsers]
    /\ InitStores

\* The first delivery of a task.
FirstRun == {1}

\* The usage count over the life of a job: the job is created by an owner
\* whose entitlement record is in any state the gate leaves behind, then
\* started (any number of times) and run once.
NextUsage == CreateStep(PipelineIds) \/ StartStep \/ WorkerStep(FirstRun)

SpecUsage == InitJob /\ [][NextUsage]_vars

\* One analysis as the app runs it: its create request, then runAnalysis
\* (upload, start, polling, result) against the first run of the worker.
NextClient == CreateStep(PipelineIds) \/ ClientStep \/ WorkerStep(FirstRun)

SpecClient == Init /\ [][NextClient]_vars

\* The requests the worker's entrypoint may be sent.
EntryRuns == {1, 2}

\* The worker's entrypoint: deliveries of the queue, which start runs, and
\* requests that lack a required field.
NextEntry ==
    \/ CreateStep(PipelineIds) \/ StartStep \/ WorkerStep(EntryRuns)
    \/ \E k \in EntryRuns, b \in Bodies : EntryReject(k, b)

SpecEntry == Init /\ [][NextEntry]_vars

\* The angle calculator, called on a value and a metric, on a whole
\* measurement or on three landmarks.
NextAngles ==
    \/ \E v \in MeasuredValues, m \in Metrics : CallIsInIdealRange(v, m)
    \/ \E a \in ShootingAngles : CallAssessShootingAngles(a)
    \/ \E a, b, c \in Points : CallCalculateAngle(a, b, c)

SpecAngles == Init /\ [][NextAngles]_vars

\* The continuity count of the coaching call, on any session history.
NextContinuity == \E h \in Histories : CallSessionsOnFocus(h)

SpecContinuity == Init /\ [][NextContinuity]_vars

\* The selection of key frames, on every list of frames and every release
\* index within it.
NextFrames ==
    \E n \in 1..MaxFrames, r \in 0..(MaxFrames - 1) :
       r < n /\ CallSelectKeySkeletonFrames(AllPaths(n), r)

SpecFrames == Init /\ [][NextFrames]_vars

\* The pipeline when a collaborator may also never return.  The event loop
\* resumes every run whose awaited call has settled, hence the weak
\* fairness of each run's steps; nothing obliges a collaborator to hang or
\* the queue to deliver a task again.
NextLive == NextJob \/ \E k \in RunIds : WorkerPoseHang(k)

SpecLive ==
    /\ Init /\ [][NextLive]_vars
    /\ \A k \in RunIds : WF_vars(RunStep(k))

\* ------------------------------------------------------------ properties
\* A run ends in this step: its try block returns or its catch block is left.
RunEnds(k) ==
    /\ runs[k].pc \in {"cleanup", "catch"}
    /\ runs'[k].pc \in {"done", "threw"}

\* The edges of the job status graph: queued to processing, processing to
\* complete or failed, and queued to failed for a run whose first write fails.
ForwardEdges == {<<"queued", "processing">>, <<"processing", "complete">>,
                 <<"processing", "failed">>, <<"queued", "failed">>}

\* C1: a step that changes the stored status of a job moves it along an edge
\* of the status graph; in particular complete and failed are never left and
\* no status goes back to queued.
C1_StatusOnlyMovesForward ==
    [][\A j \in CreateIds :
          (jobs[j].exists /\ jobs'[j].status # jobs[j].status)
             => <<jobs[j].status, jobs'[j].status>> \in ForwardEdges]_vars

\* C2: a job whose start was invoked twice (both calls reached the queue)
\* never has more than one write of a terminal status.
C2_OneTerminalWrite ==
    \A j \in CreateIds : queue[j] = "many" => termWrites[j] # "many"

\* C3: a start on a job that is no longer queued enqueues no worker task
\* (and changes no ledger entry): a step that adds a task to the queue of a
\* job is taken on a queued job.
C3_StartOnStartedJobIsNoOp ==
    [][\A j \in CreateIds :
          queue'[j] # queue[j] => (jobs[j].status = "queued" /\ jobs' = jobs)]_vars

\* C4, for every create request that has read the owner's entitlement as
\* non-pro: it is denied exactly when the count it read is at or above the
\* limit; a denied request has written no job and incremented nothing; and a
\* request that read the entitlement after a free create had answered 201 is
\* denied (the limit being 1).
C4_GateDeniesAtLimit ==
    \A r \in CreateIds :
       (creq[r].pc \in {"allowed", "written", "done201", "denied402"} /\ ~creq[r].isPro)
          => /\ (creq[r].pc = "denied402") = (creq[r].used >= creq[r].limit)
             /\ creq[r].pc = "denied402" => (~jobs[r].exists /\ creq[r].incs = 0)
             /\ creq[r].afterFree => creq[r].pc = "denied402"

\* C5: a create that has answered 201 has incremented the owner's count
\* once if it read the owner as non-pro and not at all if it read the owner
\* as pro; and the stored count changes only in the increment step of such a
\* non-pro create, after its job is written, and then by exactly one: no
\* start, no queue delivery and no worker step changes it.
C5_UsageCountedOncePerFreeCreate ==
    /\ [](\A r \in CreateIds :
             creq[r].pc = "done201" => creq[r].incs = IF creq[r].isPro THEN 0 ELSE 1)
    /\ [][\A o \in Owners :
             users'[o].used # users[o].used
                => \E r \in CreateIds :
                      /\ creq[r].owner = o /\ ~creq[r].isPro
                      /\ creq[r].pc = "written" /\ creq'[r].pc = "done201"
                      /\ jobs[r].exists
                      /\ users'[o].used = users[o].used + 1]_vars

\* A free create has answered 201 and counted once, and its job has since
\* been started twice and completed by a worker run.
C5_Witness ==
    /\ creq[1].pc = "done201" /\ ~creq[1].isPro /\ creq[1].incs = 1
    /\ users[creq[1].owner].used = creq[1].used + 1
    /\ queue[1] = "many"
    /\ jobs[1].status = "complete"
    /\ \E k \in RunIds : runs[k].pc = "done"

\* r read the owner as non-pro with exactly one free analysis left.
ReadLastFree(r) ==
    /\ creq[r].pc \in {"allowed", "written", "done201", "denied402"}
    /\ ~creq[r].isPro
    /\ creq[r].used = creq[r].limit - 1

\* C6: a create that read one free analysis left is never denied, whatever
\* other creates are in flight; so when two creates of one owner both read
\* the last free analysis and both answer 201, both jobs are written and
\* both increments made: two analyses granted for one left.
C6_ConcurrentCreatesBothGranted ==
    /\ \A r \in CreateIds : ReadLastFree(r) => creq[r].pc # "denied402"
    /\ \A r1, r2 \in CreateIds :
          (/\ r1 # r2 /\ creq[r1].owner = creq[r2].owner
           /\ ReadLastFree(r1) /\ ReadLastFree(r2)
           /\ creq[r1].pc = "done201" /\ creq[r2].pc = "done201")
             => /\ jobs[r1].exists /\ jobs[r2].exists
                /\ jobs[r1].owner = creq[r1].owner /\ jobs[r2].owner = creq[r1].owner
                /\ creq[r1].incs = 1 /\ creq[r2].incs = 1

\* Two creates of one owner both read the last free analysis before either
\* had answered, both answered 201, and the stored count is above the limit.
C6_Witness ==
    \E r1, r2 \in CreateIds :
       /\ r1 # r2 /\ creq[r1].owner = creq[r2].owner
       /\ ReadLastFree(r1) /\ ReadLastFree(r2)
       /\ ~creq[r1].afterFree /\ ~creq[r2].afterFree
       /\ creq[r1].pc = "done201" /\ creq[r2].pc = "done201"
       /\ jobs[r1].exists /\ jobs[r2].exists
       /\ users[creq[r1].owner].used > users[creq[r1].owner].limit

\* C7: the stored count of free analyses used never decreases.
C7_UsedNeverDecreases ==
    [][\A o \in Owners : users'[o].used >= users[o].used]_vars

\* C8: when a worker run of a job ends, the stored status of the job is
\* terminal (a job still queued has not become processing).
C8_RunEndLeavesTerminal ==
    [][\A k \in RunIds :
          RunEnds(k) => \/ IsTerminal(jobs'[runs[k].job].status)
                        \/ jobs'[runs[k].job].status = "queued"]_vars

\* C9: when a worker run ends, by return or by throw, the video it
\* downloaded, the frames directory and the skeleton directory are gone.
C9_TempArtifactsRemoved ==
    [][\A k \in RunIds :
          RunEnds(k) => /\ ~runs'[k].video
                        /\ ~tmp'[runs[k].job].frames
                        /\ ~tmp'[runs[k].job].skel]_vars

\* C10: when a worker run whose coaching call failed ends, the job is
\* failed with a non-empty error.
C10_CoachingFailureEndsFailed ==
    [][\A k \in RunIds :
          (RunEnds(k) /\ runs[k].err \in CoachingErrors)
             => /\ jobs'[runs[k].job].status = "failed"
                /\ jobs'[runs[k].job].error # ""]_vars

\* C11: when a run whose landmark extraction threw saves its results, the
\* job is complete and the owner's result query answers shootingAngles null
\* and an empty skeletonFrameUrls list.
C11_LandmarkFailureCompletesWithoutAngles ==
    [][\A k \in RunIds :
          (/\ runs[k].pc = "saveResults" /\ ~runs[k].angles /\ ~runs[k].urls
           /\ runs'[k].pc = "saveSession")
             => LET job == jobs'[runs[k].job]
                    out == ResultOutcome(job, job.owner)
                IN /\ out.code = 200
                   /\ out.payload.shootingAngles = "null"
                   /\ out.payload.skeletonFrameUrls = "empty"]_vars

\* C12: a run whose landmark collaborator never returns eventually stops
\* waiting for it, and its job eventually has a terminal status.
C12_LandmarkTimeoutStillTerminates ==
    /\ \A k \in RunIds : (runs[k].pc = "poseWait") ~> (runs[k].pc # "poseWait")
    /\ \A j \in PipelineIds :
          (\E k \in RunIds : runs[k].pc = "poseWait" /\ runs[k].job = j)
             ~> IsTerminal(jobs[j].status)

\* C13: for the status query, the result query and start, an unknown job id
\* answers 404, and a job addressed by a caller other than its owner answers
\* 403 with none of the job's fields; neither enqueues a task.
C13_UnknownIs404ForeignIs403 ==
    \A j \in CreateIds, c \in Callers, enqOk \in BOOLEAN :
       LET st == StatusOutcome(jobs[j], c)
           rs == ResultOutcome(jobs[j], c)
           go == StartOutcome(jobs[j], c, enqOk)
       IN /\ ~jobs[j].exists
               => /\ st.code = 404 /\ rs.code = 404 /\ go.code = 404
                  /\ ~go.enqueued
          /\ (jobs[j].exists /\ c # jobs[j].owner)
               => /\ st.code = 403 /\ rs.code = 403 /\ go.code = 403
                  /\ st.body = NoStatusBody /\ rs.payload = NoPayload
                  /\ go.status = "" /\ ~go.enqueued

\* A completed job with a stored error and result, which its owner can read
\* and another caller cannot, next to an id no job was created under.
C13_Witness ==
    /\ jobs[1].exists /\ jobs[1].status = "complete" /\ jobs[1].error # ""
    /\ ~jobs[2].exists
    /\ \E c \in Callers :
          /\ c # jobs[1].owner
          /\ StatusOutcome(jobs[1], c).code = 403
          /\ StatusOutcome(jobs[1], jobs[1].owner).code = 200
          /\ ResultOutcome(jobs[1], jobs[1].owner).code = 200
          /\ StatusOutcome(jobs[2], c).code = 404

C16_EnqueueFailureIsReturned ==
    /\ [](\A j \in CreateIds :
             (jobs[j].exists /\ ~AlreadyStarted(jobs[j].status))
                => StartOutcome(jobs[j], jobs[j].owner, FALSE)
                      = [code |-> 500, status |-> "", enqueued |-> FALSE])
    /\ [][\A j \in CreateIds : queue'[j] # queue[j] => jobs' = jobs]_vars

\* A created job that is still queued and has no task: the owner's start
\* answers 500 if its enqueue fails, and would have enqueued had it not.
C16_Witness ==
    /\ jobs[1].exists /\ jobs[1].status = "queued" /\ queue[1] = "none"
    /\ creq[1].pc = "done201"
    /\ StartOutcome(jobs[1], jobs[1].owner, FALSE).code = 500
    /\ StartOutcome(jobs[1], jobs[1].owner, TRUE).enqueued

\* C19: once the result payload of a job is written, no step changes its
\* category, its angle measurement or its annotated-frame references.
C19_ResultNeverMutated ==
    [][\A j \in CreateIds :
          jobs[j].result # "none"
             => /\ jobs'[j].result = jobs[j].result
                /\ jobs'[j].angles = jobs[j].angles
                /\ jobs'[j].urls = jobs[j].urls]_vars

\* C20: the error field of a job is set exactly when its status is failed.
C20_ErrorIffFailed ==
    \A j \in CreateIds :
       jobs[j].exists => ((jobs[j].error # "") = (jobs[j].status = "failed"))

C18_PollingIsBounded ==
    /\ [](client.reads <= MaxAttempts)
    /\ [][(client.pc = "poll" /\ client' # client)
             => /\ client'.reads = client.reads + 1
                /\ CASE jobs[ClientJob].status = "complete" -> client'.pc = "result"
                     [] jobs[ClientJob].status = "failed" ->
                           /\ client'.pc = "threw"
                           /\ client'.err = IF jobs[ClientJob].error # ""
                                               THEN jobs[ClientJob].error
                                            ELSE "Analysis failed"
                     [] OTHER ->
                           \/ client'.pc = "poll" /\ client'.reads < MaxAttempts
                           \/ /\ client'.pc = "threw"
                              /\ client'.err = "Analysis timed out"
                              /\ client'.reads = MaxAttempts]_vars
    /\ [][(client.pc = "result" /\ client' # client) => client'.pc = "returned"]_vars

\* No run of job j is between its delivery and its end.
NoRunInProgress(j) ==
    \A k \in RunIds : runs[k].job = j => runs[k].pc \in {"done", "threw"}

\* C21: whenever no worker run of a job is in progress, the job has a
\* session record exactly when its status is complete; a job has at most one
\* session record (the collection is keyed by the job's id); and no step
\* changes a session record that exists.
C21_SessionLedgerHoldsCompletedJobs ==
    /\ [](\A j \in CreateIds :
             (jobs[j].exists /\ NoRunInProgress(j))
                => (sessions[j].exists <=> jobs[j].status = "complete"))
    /\ [][\A j \in CreateIds :
             sessions[j].exists => sessions'[j] = sessions[j]]_vars

\* C22: no step changes the owner or the videoPath of a job record that
\* exists, and no step removes one.
C22_OwnerAndVideoPathImmutable ==
    [][\A j \in CreateIds :
          jobs[j].exists
             => /\ jobs'[j].exists
                /\ jobs'[j].owner = jobs[j].owner
                /\ jobs'[j].videoPath = jobs[j].videoPath]_vars

\* A job written more than once after its create, by two runs that both
\* reached a terminal write, still has the owner and the path of its create.
C22_Witness ==
    /\ jobs[1].exists /\ termWrites[1] = "many"
    /\ jobs[1].owner = creq[1].owner /\ jobs[1].owner \in Owners
    /\ jobs[1].videoPath = ReservedPath
    /\ \A k \in RunIds : runs[k].pc \in {"done", "threw"}

\* Create request r performs its entitlement check in this step: it holds
\* the UserData getOrCreateUserData returned and tests it.
GateChecks(r) ==
    /\ creq[r].pc \in {"idle", "missing"}
    /\ creq'[r].pc \in {"allowed", "denied402"}

\* C23: the gate decides on the owner's entitlement as stored when the check
\* is made: an owner stored as pro is not denied whatever the count is, and
\* an owner stored as non-pro is denied exactly at or above the limit; and a
\* pro flag once set stays set until a billing operation sets it back, so
\* that every check after the purchase sees it: no create and no
\* entitlement query turns a stored pro flag off.
C23_GateUsesLatestEntitlement ==
    /\ [][\A r \in CreateIds :
             GateChecks(r)
                => LET u == users'[creq'[r].owner]
                   IN /\ u.isPro => creq'[r].pc = "allowed"
                      /\ ~u.isPro => ((creq'[r].pc = "denied402") = (u.used >= u.limit))]_vars
    /\ [][\A o \in Owners :
             (users[o].isPro /\ ~users'[o].isPro) => (creq' = creq /\ qreq' = qreq)]_vars

\* Create request r answered 500 on its entitlement read: it holds no
\* UserData.
ReadFailed(r) == creq[r].pc = "err500" /\ creq[r].limit = 0

\* C24: a create whose entitlement read fails answers an error; the step in
\* which it fails changes neither the job records nor the entitlement
\* records; and the request, which stays answered, has written no job,
\* returned no upload url (it never answers 201) and incremented nothing.
C24_FailedEntitlementReadCreatesNothing ==
    /\ [](\A o \in Owners : GetOutcome(users[o], FALSE) = "err500")
    /\ [](\A r \in CreateIds :
             ReadFailed(r) => (~jobs[r].exists /\ creq[r].incs = 0))
    /\ [][\A r \in CreateIds :
             /\ (creq[r].pc = "idle" /\ creq'[r].pc = "err500")
                  => (jobs' = jobs /\ users' = users)
             /\ ReadFailed(r) => creq'[r] = creq[r]]_vars

\* The entitlement read of the first create failed, while the second
\* create of the same owner went through and used the free analysis.
C24_Witness ==
    /\ ReadFailed(1) /\ creq[1].owner \in Owners
    /\ creq[2].pc = "done201" /\ creq[2].owner = creq[1].owner
    /\ jobs[2].exists /\ ~jobs[1].exists
    /\ users[creq[1].owner].used = 1

\* Create request r was turned away with 400 or 401.
Rejected(r) == creq[r].pc \in {"rej400", "rej401"}

\* C25: a create without a device id answers 401 and one whose angleHint is
\* outside {side, front} answers 400; the step that rejects changes no
\* entitlement record, no job record and no queue; and the rejected request,
\* which stays answered, has written no job and counted no usage.
C25_InvalidCreateChangesNothing ==
    /\ [](/\ \A h \in AngleHints : Admit(NoDevice, h) = "rej401"
          /\ \A d \in Owners, h \in AngleHints \ (ValidHints \cup {"absent"}) :
                Admit(d, h) = "rej400")
    /\ [](\A r \in CreateIds :
             Rejected(r) => (~jobs[r].exists /\ creq[r].incs = 0))
    /\ [][\A r \in CreateIds :
             /\ (creq[r].pc = "idle" /\ Rejected(r)')
                  => (users' = users /\ jobs' = jobs /\ queue' = queue)
             /\ Rejected(r) => creq'[r] = creq[r]]_vars

\* One create was rejected for its body and one for its missing device id,
\* and the owner of the first still has no entitlement record.
C25_Witness ==
    /\ creq[1].pc = "rej400" /\ creq[1].owner \in Owners
    /\ creq[2].pc = "rej401" /\ creq[2].owner = NoDevice
    /\ ~users[creq[1].owner].exists
    /\ \A j \in CreateIds : ~jobs[j].exists

\* C26: a request to the entrypoint that lacks a required field answers
\* 400 and starts nothing, then or later; a request that has them all
\* answers 200 in the step that starts the run, before any stage of it; the
\* response of a request never changes afterwards, so it is 200 for a run
\* that ended by return and for one that ended by throw alike.
C26_EntrypointAnswersAtOnce ==
    /\ [](\A b \in Bodies :
             EntryOutcome(b) = IF b = TaskBody THEN [code |-> 200, starts |-> TRUE]
                               ELSE [code |-> 400, starts |-> FALSE])
    /\ [](\A k \in RunIds :
             /\ runs[k].pc \in {"done", "threw"} => runs[k].resp = 200
             /\ runs[k].resp = 400 => (runs[k].pc = "rej400" /\ runs[k].job = 0))
    /\ [][\A k \in RunIds :
             /\ (runs[k].pc = "idle" /\ runs'[k].pc # "idle")
                  => /\ jobs' = jobs /\ tmp' = tmp /\ sessions' = sessions
                     /\ \/ runs'[k].pc = "extract" /\ runs'[k].resp = 200
                        \/ runs'[k].pc = "rej400" /\ runs'[k].resp = 400
             /\ runs[k].pc # "idle" => runs'[k].resp = runs[k].resp
             /\ runs[k].pc = "rej400" => runs'[k] = runs[k]]_vars

\* One run ended by return and another by throw, and both requests were
\* answered 200.
C26_Witness ==
    /\ runs[1].pc = "done" /\ runs[2].pc = "threw"
    /\ runs[1].resp = 200 /\ runs[2].resp = 200
    /\ jobs[1].status = "failed"

\* classify of the specification: good inside [min, max]; otherwise, with d
\* the distance to the nearest bound, close when d <= 0.5 * (max - min) and
\* needs_work when not.
Classify(value, min, max) ==
    IF min <= value /\ value <= max THEN "good"
    ELSE LET d == IF value < min THEN min - value ELSE value - max
         IN IF 2 * d <= max - min THEN "close" ELSE "needs_work"

\* Ranges with min <= max, of even and of odd size and of size zero.
SomeRanges == {r \in [min : -6..6, max : -6..6] : r.min <= r.max}

C28_AssessmentUsesFixedBands ==
    cv.fn = "assessShootingAngles"
       => /\ cv.statuses.elbowAngle = Classify(cv.angles.elbowAngleAtRelease, 85, 100)
          /\ cv.statuses.kneeFlexion = Classify(cv.angles.kneeFlexionAtSetPoint, 30, 45)
          /\ cv.statuses.bodyLean = Classify(Abs(cv.angles.bodyLean), 0, 5)
          /\ cv.statuses.setPointHeight = Classify(cv.angles.setPointHeight, 10, 15)

\* The UserData GET /v1/entitlements holds for owner o: the stored record,
\* or the new one when none is stored.
HeldUserData(o) == IF users[o].exists THEN users[o] ELSE NewUserData

\* C29: for every owner stored as non-pro, with the count below, at or above
\* the limit, the entitlement query reports max(0, limit - used) free
\* analyses remaining, which is never negative.
C29_RemainingFreeNeverNegative ==
    \A o \in Owners :
       LET u == HeldUserData(o)
           reported == EntitlementResponse(u).remainingFreeAnalyses
       IN ~u.isPro
             => /\ reported = IF u.limit - u.used >= 0 THEN u.limit - u.used ELSE 0
                /\ reported >= 0
                /\ ~EntitlementResponse(u).isPro

\* A non-pro owner whose stored count is above the limit: the query
\* reports none remaining.
C29_Witness ==
    \E o \in Owners :
       /\ users[o].exists /\ ~users[o].isPro
       /\ users[o].used > users[o].limit
       /\ EntitlementResponse(users[o]).remainingFreeAnalyses = 0

\* C30: a purchase sync by any owner, with or without an entitlement
\* record, leaves the owner with a record whose isPro is true and whose
\* count is as before, on which a create is not paywalled.
C30_PurchaseSyncMarksPro ==
    \A o \in Owners :
       LET after == ProStatusSet(o, TRUE)[o]
       IN /\ after.exists /\ after.isPro
          /\ after.used = users[o].used
          /\ ~PaywallRequired(after)

\* C31: a purchase event of any of the three types whose entitlement list
\* contains pro, for an app user id that has an entitlement record, leaves
\* that record with isPro true.
C31_WebhookPurchaseSetsPro ==
    \A t \in PurchaseTypes, o \in Owners :
       users[o].exists => AfterWebhook(t, {"pro"}, o)[o].isPro

\* C32: a create request that has passed the middleware and that carried,
\* with its device id, a Firebase token is identified by the UID of the
\* token, and the entitlement record read and written for it is the one
\* filed under that UID, not the one under its device id.
C32_TokenIdentifiesByUid ==
    \A r \in CreateIds, uid \in FirebaseUids :
       creq[r].pc \notin {"idle", "rej400", "rej401"}
          => LET d == creq[r].owner
                 req == AuthMiddleware(d, uid)
             IN /\ req.userId = uid
                /\ UserDocId(req.deviceId, req.userId) = uid
                /\ UserDocId(req.deviceId, req.userId) # d

\* The length of the longest prefix of a list whose elements equal its
\* first.
RECURSIVE SameFocusPrefix(_)
SameFocusPrefix(list) ==
    IF list = <<>> THEN 0
    ELSE IF Len(list) = 1 THEN 1
    ELSE IF list[2] # list[1] THEN 1
    ELSE 1 + SameFocusPrefix(Tail(list))

\* C33: the continuity count computed for the coaching call is the number of
\* consecutive most recent sessions, among the five most recent, that share
\* the focus of the latest one; it is 0 for an owner without a session.
C33_ContinuityCountsConsecutive ==
    cv.fn = "sessionsOnFocus"
       => /\ cv.count = SameFocusPrefix(getUserSessions(cv.history, SessionWindow))
          /\ cv.history = <<>> => cv.count = 0

\* The order of the steps of a run, and the way from each into the catch
\* block and out of it.
RunOrder == <<"idle", "extract", "pose", "llm", "saving", "saveResults",
              "saveSession", "markComplete", "cleanup", "done">>

RunEdges ==
    {<<RunOrder[i], RunOrder[i + 1]>> : i \in 1..(Len(RunOrder) - 1)}
       \cup {<<RunOrder[i], "catch">> : i \in 2..(Len(RunOrder) - 2)}
       \cup {<<"catch", "threw">>}

\* The stages in the order a run opens them.
StageOrder == <<"none", "extracting_frames", "pose", "llm", "saving">>

\* C34: a run takes its steps in order, one at a time: frames, landmarks,
\* coaching, the stage write before the results, the results, the session,
\* the completion, or from any of them into its catch block; the stage it
\* writes in a step is the stage that step opens, so the stages of a job
\* with a single run follow each other as extracting_frames, pose, llm,
\* saving; a run is at the coaching call only from the landmark step, and at
\* the write of the results only with the answer of the coaching call.
C34_RunStepsInSequence ==
    /\ [][\A k \in RunIds :
             runs'[k].pc # runs[k].pc => <<runs[k].pc, runs'[k].pc>> \in RunEdges]_vars
    /\ [][\A j \in CreateIds :
             jobs'[j].stage # jobs[j].stage
                => \E i \in 1..(Len(StageOrder) - 1) :
                      /\ jobs[j].stage = StageOrder[i]
                      /\ jobs'[j].stage = StageOrder[i + 1]
                      /\ \E k \in RunIds :
                            /\ runs[k].job = j
                            /\ runs[k].pc = RunOrder[i + 1]]_vars
    /\ [](\A k \in RunIds :
             /\ runs[k].pc \in {"saveResults", "saving"}
                  => runs[k].category \in ValidCategories
             /\ runs[k].pc \in {"extract", "pose", "llm"} => runs[k].category = "")

\* The single run of a job went through every step and returned: the job
\* is complete at stage saving with its session written.
C34_Witness ==
    /\ runs[1].pc = "done" /\ runs[1].job = 1
    /\ jobs[1].stage = "saving" /\ jobs[1].status = "complete"
    /\ sessions[1].exists /\ queue[1] = "one"

\* C35: a run whose download finds no video object goes from the frames
\* step straight into its catch block, having called neither the landmark
\* nor the coaching collaborator, and when it ends the job is failed.
C35_MissingVideoFailsJob ==
    [][\A k \in RunIds :
          /\ runs'[k].err = "No such object"
               => /\ runs[k].pc \in {"extract", "catch"} /\ runs'[k].pc = "catch"
                  /\ ~runs'[k].angles /\ ~runs'[k].urls /\ runs'[k].category = ""
          /\ (RunEnds(k) /\ runs[k].err = "No such object")
               => jobs'[runs[k].job].status = "failed"]_vars

C37_DegenerateRayGivesZero ==
    (cv.fn = "calculateAngle" /\ (cv.a = cv.b \/ cv.c = cv.b)) => cv.angle = 0

\* The second ray has no length, the first has.
C37_Witness ==
    /\ cv.fn = "calculateAngle"
    /\ cv.c = cv.b /\ cv.a # cv.b
    /\ cv.angle = 0

\* C38: a create that answered an error (400, 401, 402 or 500) has left no
\* job record and has not incremented its owner's count; a create that
\* answered 201 has left its one job record, stored as queued.
C38_CreateAllOrNothing ==
    \A r \in CreateIds :
       /\ creq[r].pc \in {"rej400", "rej401", "denied402", "err500"}
             => (~jobs[r].exists /\ creq[r].incs = 0)
       /\ creq[r].pc = "done201"
             => (jobs[r].exists /\ jobs[r].status = "queued"
                    /\ jobs[r].owner = creq[r].owner)

\* C39: in every entitlement state the entitlement query reports isPro or
\* a positive number of remaining free analyses exactly when the create gate
\* lets the owner through, on the stored record as well as in the step in
\* which a create makes its check; and checkCanAnalyze returns canAnalyze
\* as the negation of requiresPaywall, on every response and on a throw.
C39_QueryAgreesWithGate ==
    /\ [](\A o \in Owners, ok \in BOOLEAN :
             LET u == HeldUserData(o)
                 e == EntitlementResponse(u)
                 check == checkCanAnalyze(ok, e)
             IN /\ (e.isPro \/ e.remainingFreeAnalyses > 0) = ~PaywallRequired(u)
                /\ check.canAnalyze = ~check.requiresPaywall)
    /\ [][\A r \in CreateIds :
             GateChecks(r)
                => LET e == EntitlementResponse(users'[creq'[r].owner])
                   IN (creq'[r].pc = "allowed")
                         = (e.isPro \/ e.remainingFreeAnalyses > 0)]_vars

\* The owner has used the free analysis and is not pro: a create has been
\* denied, the query reports nothing remaining, and the app asks for the
\* paywall.
C39_Witness ==
    \E r \in CreateIds :
       /\ creq[r].pc = "denied402" /\ creq[r].owner \in Owners
       /\ LET u == users[creq[r].owner]
              e == EntitlementResponse(u)
          IN /\ u.exists /\ ~u.isPro /\ u.used >= u.limit
             /\ e.remainingFreeAnalyses = 0
             /\ checkCanAnalyze(TRUE, e).requiresPaywall
             /\ ~checkCanAnalyze(TRUE, e).canAnalyze

\* The records that differ from job at most in status, progressStage, error
\* and the result fields.
JobVariants(job) ==
    {[job EXCEPT !.status = st, !.stage = sg, !.error = er, !.result = rs,
                 !.angles = an, !.urls = ur] :
        st \in {"queued", "processing", "complete", "failed"},
        sg \in {"none", "extracting_frames", "pose", "llm", "saving"},
        er \in {""} \cup CoachingErrors,
        rs \in {"none"} \cup ValidCategories,
        an \in {"none", "present"},
        ur \in {"none", "empty", "present"}}

\* C40: to a caller who is not the owner of a stored job, the status query,
\* the result query and start answer the same (403, no field of the job,
\* nothing enqueued) whatever the job's status, progressStage, error and
\* result fields are.
C40_NonOwnerLearnsNothing ==
    \A j \in CreateIds, c \in Callers, ok \in BOOLEAN :
       (jobs[j].exists /\ c # jobs[j].owner)
          => \A v \in JobVariants(jobs[j]) :
                /\ StatusOutcome(jobs[j], c) = StatusOutcome(v, c)
                /\ ResultOutcome(jobs[j], c) = ResultOutcome(v, c)
                /\ StartOutcome(jobs[j], c, ok) = StartOutcome(v, c, ok)

\* A complete job with its result stored: its owner reads the result, the
\* other device is answered 403 by all three.
C40_Witness ==
    /\ jobs[1].exists /\ jobs[1].status = "complete" /\ jobs[1].result # "none"
    /\ jobs[1].owner = "devA"
    /\ ResultOutcome(jobs[1], "devA").code = 200
    /\ StatusOutcome(jobs[1], "devB").code = 403
    /\ ResultOutcome(jobs[1], "devB").code = 403
    /\ StartOutcome(jobs[1], "devB", TRUE).code = 403

====
